---- MODULE Spec2Model ----
(***************************************************************************)
(* Model of the page scripts of Intel-Website-Localization:                *)
(*   - the milestone-card toggle of the timeline script (src/script.js,    *)
(*     repeated in src/unnamed/part_000 lines 59-157);                     *)
(*   - the direction resolver (src/unnamed/part_000 lines 1-57).           *)
(* The browser delivers one event at a time and every listener runs to     *)
(* completion; an event in flight is held in `event` with the listener     *)
(* that runs next in event.phase.                                          *)
(***************************************************************************)
EXTENDS Integers, Sequences, FiniteSets, TLC

VARIABLES
    \* ---- timeline script ------------------------------------------------
    hasTimeline,    \* document.querySelector('.timeline') found an element
    touch,          \* 'ontouchstart' in window
    viewportWidth,  \* width the media query (max-width:480px) is matched on
    open,           \* the cards of milestoneCards whose classList has 'open'
    event,          \* the DOM event being dispatched, or the last one
    \* ---- direction resolver ----------------------------------------------
    lang,           \* lang attribute of the root element (NoLang when absent)
    bodyText,       \* document.body.innerText, a sequence of code points
    dir,            \* dir attribute of the root element (NoAttr when absent)
    observing,      \* the DOMContentLoaded handler of the resolver has run
    timers,         \* the browser's live timers: id -> milliseconds left
    checkTimeout,   \* observer.checkTimeout: id of the last timer set, or NoTimer
    nextTimerId,    \* the id the next setTimeout call returns
    sincePass,      \* whether lang or bodyText changed since the last pass (bookkeeping)
    sinceMutation,  \* milliseconds since the observer's callback last ran, up to
                    \* DebounceMs (bookkeeping)
    burst,          \* runs of the observer's callback since the last pass (bookkeeping)
    hasHtmlElement, \* document.getElementById('html-element') found an element
    fault,          \* a handler ended in an uncaught exception
    \* ---- timeline scrolling ----------------------------------------------
    scrollWidth,    \* timeline.scrollWidth
    clientWidth,    \* timeline.clientWidth
    wheel,          \* deltaX, deltaY and deltaMode of the wheel event dispatched
    scrollReqs      \* the scrollBy calls made for the event dispatched

cardVars == <<hasTimeline, touch, viewportWidth, open>>
dirVars  == <<lang, bodyText, dir, observing, timers, checkTimeout,
              nextTimerId, sincePass, sinceMutation, burst, hasHtmlElement,
              fault>>
scrollVars == <<scrollWidth, clientWidth, wheel, scrollReqs>>
vars     == <<hasTimeline, touch, viewportWidth, open, event,
              lang, bodyText, dir, observing, timers, checkTimeout,
              nextTimerId, sincePass, sinceMutation, burst, hasHtmlElement, fault,
              scrollWidth, clientWidth, wheel, scrollReqs>>

-----------------------------------------------------------------------------
(* Bounds of the model *)

NumCards == 3

\* Body texts hold up to MaxRtlChars characters of the RTL range, in lengths
\* around each multiple of ten up to 10 * MaxRtlChars.
MaxRtlChars == 1

\* setTimeout calls after which no further body mutation is modelled.
MaxTimers == 3

\* Granularity of the clock, in milliseconds over TickDivisor steps per
\* debounce delay.
TickDivisor == 2

(* Program constants *)

SmallMaxWidth == 480

RtlRangeLo == 1424   \* U+0590

RtlRangeHi == 2303   \* U+08FF

DebounceMs == 100

LinePx == 16           \* pixels for a line of wheel delta

PagePx == 800          \* pixels for a page of wheel delta

SpeedTenths == 12      \* speed = 1.2, in tenths

SmallStep == 260       \* small, the arrow-key step

BigTenths == 8         \* big = clientWidth * 0.8, the factor in tenths

-----------------------------------------------------------------------------
(* Milestone cards *)

\* The static NodeList captured by querySelectorAll('.milestone-card').
milestoneCards == 1..NumCards

NoCard   == 0
\* A .milestone-card element inserted after initialization: it matches the
\* selector of the document listener but is not in milestoneCards and has no
\* listener of its own.
LateCard == NumCards + 1

\* Where an event's target sits: inside which card (NoCard: outside all of
\* them) and whether inside an <a> or <button> (closest('a, button')).
Targets == [card : {NoCard} \cup milestoneCards \cup {LateCard}, inLink : BOOLEAN]

Keys == {"Enter", " ", "Tab"}

ViewportWidths == {SmallMaxWidth - 1, SmallMaxWidth, SmallMaxWidth + 1}

NoEvent == [type |-> "none", target |-> [card |-> NoCard, inLink |-> FALSE],
            key |-> "", phase |-> "done", defaultPrevented |-> FALSE,
            before |-> {}]

isTouchOrSmallOffByOne == touch \/ viewportWidth <= SmallMaxWidth + 1

\* isTouchOrSmall()
isTouchOrSmall == touch \/ viewportWidth <= SmallMaxWidth

ToggleCardNoClose(currentTarget, target, openSet) ==
    IF ~isTouchOrSmall THEN openSet
    ELSE IF target.inLink THEN openSet
    ELSE IF currentTarget \in openSet THEN openSet \ {currentTarget}
         ELSE openSet \cup {currentTarget}

ToggleCardNoLinkCheck(currentTarget, target, openSet) ==
    IF ~isTouchOrSmall THEN openSet
    ELSE (openSet \ milestoneCards)
            \cup (IF currentTarget \in openSet THEN {} ELSE {currentTarget})

ToggleCardKeepOpen(currentTarget, target, openSet) ==
    IF ~isTouchOrSmall THEN openSet
    ELSE IF target.inLink THEN openSet
    ELSE (openSet \ milestoneCards) \cup {currentTarget}

\* toggleCard(e): the class list of the cards after the call, given
\* e.currentTarget, where e.target sits, and the cards open before.
toggleCard(currentTarget, target, openSet) ==
    IF ~isTouchOrSmall THEN openSet
    ELSE IF target.inLink THEN openSet
    ELSE LET wasOpen == currentTarget \in openSet
             closed  == openSet \ milestoneCards
         IN  IF ~wasOpen THEN closed \cup {currentTarget} ELSE closed

KeydownTogglesEnterOnly(key) == key = "Enter" /\ isTouchOrSmall

\* The condition of the card keydown listener.
KeydownToggles(key) == (key = "Enter" \/ key = " ") /\ isTouchOrSmall

DocClickClosesAnywhere(target) == isTouchOrSmall

\* The document click listener removes 'open' from every card.
DocClickCloses(target) == isTouchOrSmall /\ target.card = NoCard

\* No wheel event has been dispatched.
NoWheel == [deltaX |-> 0, deltaY |-> 0, deltaMode |-> 0]

listenersRegisteredAlways == TRUE

\* The listeners of the timeline script exist only when the script did not
\* return early for want of a .timeline element.
listenersRegistered == hasTimeline

Idle == event.phase = "done"

\* A click is delivered: to the card's listener when the target is inside a
\* card that has one, then to the document's listener.
ClickDispatch(t) ==
    /\ Idle
    /\ event' = [type |-> "click", target |-> t, key |-> "",
                 phase |-> IF ~listenersRegistered THEN "done"
                           ELSE IF t.card \in milestoneCards THEN "card"
                           ELSE "document",
                 defaultPrevented |-> FALSE, before |-> open]
    /\ wheel' = NoWheel
    /\ scrollReqs' = <<>>
    /\ UNCHANGED <<cardVars, dirVars, scrollWidth, clientWidth>>

\* card.addEventListener('click', toggleCard)
CardClick ==
    /\ event.type = "click" /\ event.phase = "card"
    /\ open' = toggleCard(event.target.card, event.target, open)
    /\ event' = [event EXCEPT !.phase = "document"]
    /\ UNCHANGED <<hasTimeline, touch, viewportWidth, dirVars, scrollVars>>

\* document.addEventListener('click', ...)
DocumentClick ==
    /\ event.type = "click" /\ event.phase = "document"
    /\ open' = IF DocClickCloses(event.target) THEN open \ milestoneCards ELSE open
    /\ event' = [event EXCEPT !.phase = "done"]
    /\ UNCHANGED <<hasTimeline, touch, viewportWidth, dirVars, scrollVars>>

\* A keydown is delivered to the listener of the card the target is inside,
\* when the card has one.
KeydownDispatch(t, k) ==
    /\ Idle
    /\ t.card \in milestoneCards
    /\ event' = [type |-> "keydown", target |-> t, key |-> k,
                 phase |-> IF listenersRegistered THEN "card" ELSE "done",
                 defaultPrevented |-> FALSE, before |-> open]
    /\ wheel' = NoWheel
    /\ scrollReqs' = <<>>
    /\ UNCHANGED <<cardVars, dirVars, scrollWidth, clientWidth>>

\* card.addEventListener('keydown', ...)
CardKeydown ==
    /\ event.type = "keydown" /\ event.phase = "card"
    /\ IF KeydownToggles(event.key)
       THEN /\ open' = toggleCard(event.target.card, event.target, open)
            /\ event' = [event EXCEPT !.phase = "done", !.defaultPrevented = TRUE]
       ELSE /\ open' = open
            /\ event' = [event EXCEPT !.phase = "done"]
    /\ UNCHANGED <<hasTimeline, touch, viewportWidth, dirVars, scrollVars>>

\* The viewport is resized (or the device rotated) between events.
Resize(w) ==
    /\ Idle
    /\ w # viewportWidth
    /\ viewportWidth' = w
    /\ event' = [NoEvent EXCEPT !.type = "resize"]
    /\ UNCHANGED <<hasTimeline, touch, open, dirVars, scrollVars>>

-----------------------------------------------------------------------------
(* Direction resolver *)

\* An absent dir attribute.
NoAttr  == "none"
\* An absent lang attribute (getAttribute returns null): a value that is no
\* sequence of single characters.
NoLang  == <<"null">>
NoTimer == 0

Upper == <<"A","B","C","D","E","F","G","H","I","J","K","L","M",
           "N","O","P","Q","R","S","T","U","V","W","X","Y","Z">>
Lower == <<"a","b","c","d","e","f","g","h","i","j","k","l","m",
           "n","o","p","q","r","s","t","u","v","w","x","y","z">>

\* String.prototype.toLowerCase on one character.
ToLowerChar(c) ==
    IF \E i \in DOMAIN Upper : Upper[i] = c
    THEN Lower[CHOOSE i \in DOMAIN Upper : Upper[i] = c]
    ELSE c

\* String.prototype.toLowerCase
toLowerCase(s) == [i \in DOMAIN s |-> ToLowerChar(s[i])]

\* s.split('-')[0]: the text before the first '-', the whole of s without one.
SplitFirst(s) ==
    IF \E i \in DOMAIN s : s[i] = "-"
    THEN SubSeq(s, 1, (CHOOSE i \in DOMAIN s :
                          /\ s[i] = "-"
                          /\ \A j \in 1..(i - 1) : s[j] # "-") - 1)
    ELSE s

\* const rtlLanguages = ['ar', 'he', 'fa', 'ur', 'yi', 'ji', 'iw', 'ku']
rtlLanguages ==
    { <<"a","r">>, <<"h","e">>, <<"f","a">>, <<"u","r">>,
      <<"y","i">>, <<"j","i">>, <<"i","w">>, <<"k","u">> }

currentLangDefaultAr(attr) ==
    IF attr = NoLang \/ attr = <<>> THEN <<"a","r">> ELSE attr

\* htmlElement.getAttribute('lang') || 'en'
currentLang(attr) == IF attr = NoLang \/ attr = <<>> THEN <<"e","n">> ELSE attr

langCodeCaseSensitive(attr) == SplitFirst(currentLang(attr))

\* currentLang.split('-')[0].toLowerCase()
langCode(attr) == toLowerCase(SplitFirst(currentLang(attr)))

\* text.match(/[֐-ࣿ]/g) || []: the matching characters.
Matches(text) == { i \in DOMAIN text : text[i] >= RtlRangeLo /\ text[i] <= RtlRangeHi }

hasRTLCharactersAtLeast(text) == Cardinality(Matches(text)) * 10 >= Len(text)

\* matches.length > text.length * 0.1, with both sides multiplied by ten.
\* The double nearest 0.1 is above 0.1 and every length is an exact double,
\* so the rounded product is never below length/10 and never reaches the
\* next integer above it: the comparison in doubles decides as this one does.
hasRTLCharacters(text) == Cardinality(Matches(text)) * 10 > Len(text)

\* The two tiers of setPageDirection on a lang attribute and a body text.
ResolveDirection(attr, text) ==
    IF langCode(attr) \in rtlLanguages THEN "rtl"
    ELSE IF hasRTLCharacters(text) THEN "rtl"
    ELSE "ltr"

\* A resolver whose text test does not give the same answer twice running
\* (as a sticky global regular expression tested in place would).
setPageDirectionSticky ==
    IF langCode(lang) \in rtlLanguages THEN "rtl"
    ELSE IF hasRTLCharacters(bodyText) /\ dir # "rtl" THEN "rtl"
    ELSE "ltr"

\* setPageDirection(): the value the call leaves in the dir attribute.
setPageDirection == ResolveDirection(lang, bodyText)

\* The language tags a page is served with or a translation widget sets.
LangTags ==
    { <<"a","r">>, <<"h","e">>, <<"f","a">>, <<"u","r">>,
      <<"y","i">>, <<"j","i">>, <<"i","w">>, <<"k","u">> } \cup
    { <<"A","R">>, <<"a","r","-","E","G">>, <<"H","e","-","I","L">>,
      <<"f","A">>, <<"U","R","-","p","k">>, <<"y","i","-">>,
      <<"J","i","-","L","a","t","n","-","U","S">>, <<"I","W">>,
      <<"K","u","-","T","R">> } \cup
    { NoLang, <<>>, <<"e","n">>, <<"E","N","-","u","s">>, <<"a">>,
      <<"a","r","b">>, <<"a","r","_","E","G">>, <<"-","a","r">>,
      <<"x","-","h","e">>, <<"f","r","-","k","u">> }

RtlPoints   == <<RtlRangeLo, RtlRangeHi>>
OtherPoints == <<65, RtlRangeLo - 1, RtlRangeHi + 1>>

\* A text of n characters of which the first j are in the RTL range; both
\* ends of the range and both neighbours outside it occur.
MkText(j, n) ==
    [i \in 1..n |-> IF i <= j THEN RtlPoints[(i % 2) + 1]
                    ELSE OtherPoints[(i % 3) + 1]]

TextLengths ==
    {0, 1} \cup UNION { {10 * k - 1, 10 * k, 10 * k + 1} : k \in 1..MaxRtlChars }

BodyTexts == { MkText(j, n) : j \in 0..MaxRtlChars, n \in TextLengths \ {0} }
                \cup { <<>> }

TickMs == DebounceMs \div TickDivisor

PassEvent(kind) == [NoEvent EXCEPT !.type = kind]

\* Bookkeeping of the inputs of a pass: "none" before the first pass,
\* "changed" once lang or the body text differs from what the last pass
\* read, "clean" after a pass, "repeated" after a pass that read what the
\* pass before it read.
AfterPass == IF sincePass \in {"clean", "repeated"} THEN "repeated" ELSE "clean"

\* The DOMContentLoaded handler of the resolver: the initial pass, then the
\* observer is installed on document.body.  Without the root element,
\* htmlElement is null and htmlElement.getAttribute throws in the initial
\* pass: the handler ends there, before the observer is made.
DirectionLoad ==
    /\ Idle
    /\ ~observing
    /\ ~fault
    /\ IF hasHtmlElement
       THEN /\ dir' = setPageDirection
            /\ observing' = TRUE
            /\ sincePass' = AfterPass
            /\ event' = PassEvent("load")
            /\ fault' = FALSE
       ELSE /\ fault' = TRUE
            /\ event' = PassEvent("error")
            /\ UNCHANGED <<dir, observing, sincePass>>
    /\ UNCHANGED <<cardVars, scrollVars, hasHtmlElement, lang, bodyText, timers,
                   checkTimeout, nextTimerId, sinceMutation, burst>>

\* A lang change that re-evaluates the direction at once.
SetLangResolves(tag) ==
    /\ Idle
    /\ hasHtmlElement
    /\ tag # lang
    /\ lang' = tag
    /\ dir' = ResolveDirection(tag, bodyText)
    /\ sincePass' = sincePass
    /\ event' = PassEvent("setlang")
    /\ UNCHANGED <<cardVars, scrollVars, hasHtmlElement, fault, bodyText,
                   observing, timers, checkTimeout, nextTimerId, sinceMutation,
                   burst>>

\* A script changes the lang attribute of the root element.
SetLang(tag) ==
    /\ Idle
    /\ hasHtmlElement
    /\ tag # lang
    /\ lang' = tag
    /\ sincePass' = IF sincePass = "none" THEN "none" ELSE "changed"
    /\ event' = PassEvent("setlang")
    /\ UNCHANGED <<cardVars, scrollVars, hasHtmlElement, fault, bodyText, dir,
                   observing, timers, checkTimeout, nextTimerId,
                   sinceMutation, burst>>

\* The body subtree is mutated (nodes inserted or removed, text changed); the
\* rendered text becomes t, which may equal the text before.  The observer's
\* callback is queued.
MutateBody(t) ==
    /\ Idle
    /\ observing
    /\ nextTimerId <= MaxTimers
    /\ bodyText' = t
    /\ sincePass' = IF sincePass # "none" /\ t # bodyText THEN "changed"
                    ELSE sincePass
    /\ event' = [NoEvent EXCEPT !.type = "mutation", !.phase = "observer"]
    /\ UNCHANGED <<cardVars, scrollVars, hasHtmlElement, fault, lang, dir,
                   observing, timers, checkTimeout, nextTimerId,
                   sinceMutation, burst>>

clearTimeoutNoop(table, id) == table

\* clearTimeout(id)
clearTimeout(table, id) == [i \in (DOMAIN table) \ {id} |-> table[i]]

setTimeoutNoDelay(table, id, ms) ==
    [i \in (DOMAIN table) \cup {id} |-> IF i = id THEN 0 ELSE table[i]]

\* setTimeout(f, ms) returning id
setTimeout(table, id, ms) ==
    [i \in (DOMAIN table) \cup {id} |-> IF i = id THEN ms ELSE table[i]]

\* The MutationObserver callback.
ObserverCallback ==
    /\ event.type = "mutation" /\ event.phase = "observer"
    /\ timers' = setTimeout(clearTimeout(timers, checkTimeout), nextTimerId,
                            DebounceMs)
    /\ checkTimeout' = nextTimerId
    /\ nextTimerId' = nextTimerId + 1
    /\ sinceMutation' = 0
    /\ burst' = burst + 1
    /\ event' = [event EXCEPT !.phase = "done"]
    /\ UNCHANGED <<cardVars, scrollVars, hasHtmlElement, fault, lang, bodyText,
                   dir, observing, sincePass>>

\* The time to the next clock step: TickMs, or less when a timer is due
\* sooner.
TickStep ==
    LET soonest == CHOOSE m \in {timers[i] : i \in DOMAIN timers} :
                       \A i \in DOMAIN timers : m <= timers[i]
    IN  IF soonest < TickMs THEN soonest ELSE TickMs

\* Time passes; a timer that is due runs before time goes on.
Tick ==
    /\ Idle
    /\ DOMAIN timers # {}
    /\ \A i \in DOMAIN timers : timers[i] > 0
    /\ timers' = [i \in DOMAIN timers |-> timers[i] - TickStep]
    /\ sinceMutation' = IF sinceMutation + TickStep > DebounceMs THEN DebounceMs
                        ELSE sinceMutation + TickStep
    /\ event' = PassEvent("tick")
    /\ UNCHANGED <<cardVars, scrollVars, hasHtmlElement, fault, lang, bodyText,
                   dir, observing, checkTimeout, nextTimerId, sincePass, burst>>

\* A pass whose write of dir queues the observer's callback again.
TimerFireReschedules(id) ==
    /\ Idle
    /\ id \in DOMAIN timers
    /\ timers[id] <= 0
    /\ dir' = setPageDirection
    /\ timers' = setTimeout(timers, id, DebounceMs)
    /\ sincePass' = AfterPass
    /\ burst' = 0
    /\ event' = PassEvent("timeout")
    /\ UNCHANGED <<cardVars, scrollVars, hasHtmlElement, fault, lang, bodyText,
                   observing, checkTimeout, nextTimerId, sinceMutation>>

\* A due timer runs its callback, setPageDirection.
TimerFire(id) ==
    /\ Idle
    /\ id \in DOMAIN timers
    /\ timers[id] <= 0
    /\ dir' = setPageDirection
    /\ timers' = clearTimeout(timers, id)
    /\ sincePass' = AfterPass
    /\ burst' = 0
    /\ event' = PassEvent("timeout")
    /\ UNCHANGED <<cardVars, scrollVars, hasHtmlElement, fault, lang, bodyText,
                   observing, checkTimeout, nextTimerId, sinceMutation>>

-----------------------------------------------------------------------------
(* Timeline scrolling.  Scroll offsets are kept in tenths of a pixel, so   *)
(* that delta * 1.2 and clientWidth * 0.8 are whole numbers.               *)

canScrollHorizontallyNoTolerance == scrollWidth > clientWidth

\* canScrollHorizontally()
canScrollHorizontally == scrollWidth > clientWidth + 1

normalizeDeltaYLinesOnly(e) ==
    IF e.deltaMode = 1 THEN e.deltaY * LinePx ELSE e.deltaY

\* normalizeDeltaY(e)
normalizeDeltaY(e) ==
    IF e.deltaMode = 1 THEN e.deltaY * LinePx
    ELSE IF e.deltaMode = 2 THEN e.deltaY * PagePx
    ELSE e.deltaY

\* Math.abs
Abs(x) == IF x < 0 THEN -x ELSE x

verticalDominatesOrTies(e) == Abs(e.deltaY) >= Abs(e.deltaX)

\* Math.abs(e.deltaY) > Math.abs(e.deltaX)
verticalDominates(e) == Abs(e.deltaY) > Abs(e.deltaX)

\* timeline.scrollBy({ left, behavior }), left in tenths
ScrollBy(leftTenths, behavior) == [leftTenths |-> leftTenths, behavior |-> behavior]

timelineKeyScrollPageUpForward(key) ==
    IF key = "ArrowRight" THEN <<ScrollBy(SmallStep * 10, "smooth")>>
    ELSE IF key = "ArrowLeft" THEN <<ScrollBy(-(SmallStep * 10), "smooth")>>
    ELSE IF key = "PageDown" THEN <<ScrollBy(clientWidth * BigTenths, "smooth")>>
    ELSE IF key = "PageUp" THEN <<ScrollBy(clientWidth * BigTenths, "smooth")>>
    ELSE <<>>

\* The scrollBy calls of the timeline keydown listener for a key; it calls
\* preventDefault exactly when it makes one.
timelineKeyScroll(key) ==
    IF key = "ArrowRight" THEN <<ScrollBy(SmallStep * 10, "smooth")>>
    ELSE IF key = "ArrowLeft" THEN <<ScrollBy(-(SmallStep * 10), "smooth")>>
    ELSE IF key = "PageDown" THEN <<ScrollBy(clientWidth * BigTenths, "smooth")>>
    ELSE IF key = "PageUp" THEN <<ScrollBy(-(clientWidth * BigTenths), "smooth")>>
    ELSE <<>>

\* Wheel deltas: both signs, zero, equal magnitudes, and the modes pixel,
\* line, page and one the handler does not know.
Deltas == {-100, -10, 0, 10, 100}

WheelEvents == [deltaX : Deltas, deltaY : Deltas, deltaMode : 0..3]

TimelineKeys == {"ArrowRight", "ArrowLeft", "PageDown", "PageUp", "Enter", "Home"}

\* The sizes of the timeline: not overflowing, overflowing by one pixel, by
\* two, and by its own width.
ClientWidths == {333, 500}

ScrollWidths(cw) == {cw, cw + 1, cw + 2, 2 * cw}

\* A wheel event is delivered to the timeline's listener, when it has one.
WheelDispatch(e) ==
    /\ Idle
    /\ event' = [NoEvent EXCEPT !.type = "wheel",
                     !.phase = IF listenersRegistered THEN "timeline" ELSE "done"]
    /\ wheel' = e
    /\ scrollReqs' = <<>>
    /\ UNCHANGED <<cardVars, dirVars, scrollWidth, clientWidth>>

\* onWheel
TimelineWheel ==
    /\ event.type = "wheel" /\ event.phase = "timeline"
    /\ IF canScrollHorizontally /\ verticalDominates(wheel)
       THEN /\ event' = [event EXCEPT !.phase = "done", !.defaultPrevented = TRUE]
            /\ scrollReqs' = Append(scrollReqs,
                                ScrollBy(normalizeDeltaY(wheel) * SpeedTenths, "auto"))
       ELSE /\ event' = [event EXCEPT !.phase = "done"]
            /\ scrollReqs' = scrollReqs
    /\ UNCHANGED <<cardVars, dirVars, scrollWidth, clientWidth, wheel>>

\* A keydown is delivered to the timeline's listener, when it has one.
TimelineKeyDispatch(k) ==
    /\ Idle
    /\ event' = [NoEvent EXCEPT !.type = "keydown", !.key = k,
                     !.phase = IF listenersRegistered THEN "timeline" ELSE "done"]
    /\ wheel' = NoWheel
    /\ scrollReqs' = <<>>
    /\ UNCHANGED <<cardVars, dirVars, scrollWidth, clientWidth>>

\* timeline.addEventListener('keydown', ...)
TimelineKeydown ==
    /\ event.type = "keydown" /\ event.phase = "timeline"
    /\ scrollReqs' = scrollReqs \o timelineKeyScroll(event.key)
    /\ event' = [event EXCEPT !.phase = "done",
                     !.defaultPrevented = (timelineKeyScroll(event.key) # <<>>)]
    /\ UNCHANGED <<cardVars, dirVars, scrollWidth, clientWidth, wheel>>

-----------------------------------------------------------------------------
(* Specifications *)

\* The page of the card claims: any context and any cards open; the
\* resolver's side is one document that stays as served.
InitCards ==
    /\ hasTimeline \in BOOLEAN
    /\ touch \in BOOLEAN
    /\ viewportWidth \in ViewportWidths
    /\ open \in SUBSET milestoneCards
    /\ event = NoEvent
    /\ lang = <<"e","n">>
    /\ bodyText = <<>>
    /\ dir = NoAttr
    /\ observing = FALSE
    /\ timers = <<>>
    /\ checkTimeout = NoTimer
    /\ nextTimerId = 1
    /\ sincePass = "none"
    /\ sinceMutation = 0
    /\ burst = 0
    /\ hasHtmlElement = TRUE
    /\ fault = FALSE
    /\ scrollWidth = 1000
    /\ clientWidth = 500
    /\ wheel = NoWheel
    /\ scrollReqs = <<>>

\* The page of the resolver claims: any lang attribute, body text and dir
\* attribute as served; the cards' side is a touch device with the first
\* card open.
InitDirection ==
    /\ hasHtmlElement \in BOOLEAN
    /\ lang \in (IF hasHtmlElement THEN LangTags ELSE {NoLang})
    /\ bodyText \in BodyTexts
    /\ dir \in (IF hasHtmlElement THEN {NoAttr, "ltr", "rtl"} ELSE {NoAttr})
    /\ sinceMutation = 0
    /\ burst = 0
    /\ fault = FALSE
    /\ scrollWidth = 1000
    /\ clientWidth = 500
    /\ wheel = NoWheel
    /\ scrollReqs = <<>>
    /\ observing = FALSE
    /\ timers = <<>>
    /\ checkTimeout = NoTimer
    /\ nextTimerId = 1
    /\ sincePass = "none"
    /\ hasTimeline = TRUE
    /\ touch = TRUE
    /\ viewportWidth = SmallMaxWidth
    /\ open = {1}
    /\ event = NoEvent

NextCards ==
    \/ \E t \in Targets : ClickDispatch(t)
    \/ CardClick
    \/ DocumentClick
    \/ \E t \in Targets, k \in Keys : KeydownDispatch(t, k)
    \/ CardKeydown
    \/ \E w \in ViewportWidths : Resize(w)

NextDirection ==
    \/ DirectionLoad
    \/ \E tag \in LangTags : SetLang(tag)
    \/ \E t \in BodyTexts : MutateBody(t)
    \/ ObserverCallback
    \/ Tick
    \/ \E id \in 1..MaxTimers : TimerFire(id)

SpecCards == InitCards /\ [][NextCards]_vars

SpecDirection == InitDirection /\ [][NextDirection]_vars

\* A page for the convergence claim: a lang attribute of each kind and a
\* body text on each side of the threshold.
ConvergeLangTags == { NoLang, <<"e","n">>, <<"a","r">>, <<"K","u","-","T","R">> }

ConvergeTexts == { <<>>, MkText(1, 1), MkText(1, 9), MkText(1, 10) }

InitConverge ==
    /\ hasHtmlElement \in BOOLEAN
    /\ lang \in (IF hasHtmlElement THEN ConvergeLangTags ELSE {NoLang})
    /\ bodyText \in ConvergeTexts
    /\ dir \in (IF hasHtmlElement THEN {NoAttr, "ltr", "rtl"} ELSE {NoAttr})
    /\ observing = FALSE
    /\ timers = <<>>
    /\ checkTimeout = NoTimer
    /\ nextTimerId = 1
    /\ sincePass = "none"
    /\ sinceMutation = 0
    /\ burst = 0
    /\ fault = FALSE
    /\ scrollWidth = 1000
    /\ clientWidth = 500
    /\ wheel = NoWheel
    /\ scrollReqs = <<>>
    /\ hasTimeline = TRUE
    /\ touch = TRUE
    /\ viewportWidth = SmallMaxWidth
    /\ open = {1}
    /\ event = NoEvent

NextConverge ==
    \/ DirectionLoad
    \/ \E tag \in ConvergeLangTags : SetLang(tag)
    \/ \E t \in ConvergeTexts : MutateBody(t)
    \/ ObserverCallback
    \/ Tick
    \/ \E id \in 1..MaxTimers : TimerFire(id)

\* The event loop runs a queued observer callback and a due timer, the load
\* handler runs, and time passes while a timer is pending.
SpecConverge ==
    /\ InitConverge
    /\ [][NextConverge]_vars
    /\ WF_vars(DirectionLoad)
    /\ WF_vars(ObserverCallback)
    /\ WF_vars(Tick)
    /\ WF_vars(\E id \in 1..MaxTimers : TimerFire(id))


\* The page of the scrolling claims: a timeline of each size, or none.
InitScroll ==
    /\ hasTimeline \in BOOLEAN
    /\ clientWidth \in ClientWidths
    /\ scrollWidth \in ScrollWidths(clientWidth)
    /\ wheel = NoWheel
    /\ scrollReqs = <<>>
    /\ touch = TRUE
    /\ viewportWidth = SmallMaxWidth
    /\ open = {1}
    /\ event = NoEvent
    /\ hasHtmlElement = TRUE
    /\ lang = <<"e","n">>
    /\ bodyText = <<>>
    /\ dir = NoAttr
    /\ observing = FALSE
    /\ timers = <<>>
    /\ checkTimeout = NoTimer
    /\ nextTimerId = 1
    /\ sincePass = "none"
    /\ sinceMutation = 0
    /\ burst = 0
    /\ fault = FALSE

NextScroll ==
    \/ \E e \in WheelEvents : WheelDispatch(e)
    \/ TimelineWheel
    \/ \E k \in TimelineKeys : TimelineKeyDispatch(k)
    \/ TimelineKeydown

SpecScroll == InitScroll /\ [][NextScroll]_vars

\* The whole timeline script: the card listeners and the scroll listeners,
\* on a page with or without a timeline.
NextTimeline ==
    \/ NextCards
    \/ NextScroll

SpecTimeline == InitCards /\ [][NextTimeline]_vars

-----------------------------------------------------------------------------
(* Properties of the milestone cards, under SpecCards *)

\* The touch or narrow-viewport context, as the card contract words it.
TouchOrNarrow == touch \/ viewportWidth <= SmallMaxWidth

\* A click or keydown whose listeners have all run.
Handled(kind) == event.type = kind /\ event.phase = "done"

\* C1: once at most one of the milestone cards is open, no click, keydown,
\* outside click, click on an embedded link or button, or change of the
\* viewport leaves more than one of them open.
C1_AtMostOneOpen ==
    [][Cardinality(open) <= 1 => Cardinality(open') <= 1]_vars

\* A click opened card 2 while card 1 was the open one.
C1_Witness ==
    /\ Handled("click")
    /\ event.before = {1}
    /\ event.target = [card |-> 2, inLink |-> FALSE]
    /\ open = {2}

\* C2: in a touch or narrow context, a handled click on card c outside any
\* link or button leaves exactly {c} open when c was closed (whatever else
\* was open) and nothing open when c was open.
C2_ClickToggles ==
    ( /\ Handled("click")
      /\ listenersRegistered
      /\ TouchOrNarrow
      /\ event.target.card \in milestoneCards
      /\ ~event.target.inLink )
    => open = IF event.target.card \in event.before THEN {}
              ELSE {event.target.card}

\* Card 3 was clicked open on a page served with cards 1 and 2 both open:
\* both are closed.
C2_Witness ==
    /\ Handled("click")
    /\ listenersRegistered
    /\ TouchOrNarrow
    /\ event.target = [card |-> 3, inLink |-> FALSE]
    /\ event.before = {1, 2}
    /\ open = {3}

\* C3: in a touch or narrow context the document listener, which runs last,
\* closes every card when the click's target is inside no card, and leaves
\* the cards as the card's own listener left them when it is inside one.
C3_OutsideClickCloses ==
    [][ ( /\ event.type = "click" /\ event.phase = "document"
          /\ event'.phase = "done"
          /\ TouchOrNarrow )
        => IF event.target.card = NoCard THEN open' = {} ELSE open' = open ]_vars

\* A click outside the cards closed the open card.
C3_Witness ==
    /\ Handled("click")
    /\ TouchOrNarrow
    /\ event.target.card = NoCard
    /\ event.before = {2}
    /\ open = {}

\* C4: with no touch support and a viewport wider than 480px no step changes
\* the open state of a card, and no event ends with its default prevented.
C4_InertWhenWide ==
    [][ (~touch /\ viewportWidth > SmallMaxWidth)
        => (open' = open /\ ~event'.defaultPrevented) ]_vars

\* Enter on an open card of a wide page: the card is still open and the
\* key's default was left alone.
C4_Witness ==
    /\ ~touch /\ viewportWidth > SmallMaxWidth
    /\ Handled("keydown")
    /\ event.key = "Enter"
    /\ ~event.target.inLink
    /\ event.target.card \in open
    /\ ~event.defaultPrevented

\* C5: while a click whose target is inside a link or button of a milestone
\* card is delivered, in any context, no listener changes a card.
C5_LinkClickIgnored ==
    [][ ( /\ event'.type = "click"
          /\ event'.target.inLink
          /\ event'.target.card \in milestoneCards )
        => open' = open ]_vars

\* A link inside the closed card 2 was clicked on a touch page with card 1
\* open: card 1 is still the open one.
C5_Witness ==
    /\ Handled("click")
    /\ listenersRegistered
    /\ TouchOrNarrow
    /\ event.target = [card |-> 2, inLink |-> TRUE]
    /\ event.before = {1}
    /\ open = {1}

\* What a click on target t leaves open after the card's listener and then
\* the document's listener have run on the open set o.
ClickResult(t, o) ==
    LET afterCard == toggleCard(t.card, t, o)
    IN  IF DocClickCloses(t) THEN afterCard \ milestoneCards ELSE afterCard

\* C6: in a touch or narrow context an Enter or Space keydown handled by a
\* card's listener leaves open what a click on the same target would, and
\* the key's default is prevented.
C6_KeyTogglesLikeClick ==
    [][ ( /\ event.type = "keydown" /\ event.phase = "card"
          /\ event'.phase = "done"
          /\ event.key \in {"Enter", " "}
          /\ TouchOrNarrow )
        => /\ open' = ClickResult(event.target, open)
           /\ event'.defaultPrevented ]_vars

\* Space on the closed card 3 opened it and closed card 1.
C6_Witness ==
    /\ Handled("keydown")
    /\ event.key = " "
    /\ event.defaultPrevented
    /\ event.target = [card |-> 3, inLink |-> FALSE]
    /\ event.before = {1}
    /\ open = {3}

-----------------------------------------------------------------------------
(* Properties of the direction resolver, under SpecDirection *)

\* The language codes the resolver is to treat as right-to-left.
RtlCodes ==
    { <<"a","r">>, <<"h","e">>, <<"f","a">>, <<"u","r">>,
      <<"y","i">>, <<"j","i">>, <<"i","w">>, <<"k","u">> }

UpperOf(c) == Upper[CHOOSE i \in DOMAIN Lower : Lower[i] = c]

\* The text of tag before its first '-' is code, letter case aside.
PrimarySubtagIs(tag, code) ==
    /\ Len(tag) >= Len(code)
    /\ \A i \in 1..Len(code) : tag[i] \in {code[i], UpperOf(code[i])}
    /\ Len(tag) > Len(code) => tag[Len(code) + 1] = "-"

HasRtlPrimarySubtag(tag) == \E code \in RtlCodes : PrimarySubtagIs(tag, code)

\* The characters of text in U+0590..U+08FF.
RtlCount(text) ==
    Cardinality({ i \in 1..Len(text) : text[i] \in RtlRangeLo..RtlRangeHi })

\* A resolver pass has just completed.
PassDone == event.type \in {"load", "timeout"}

\* C7: after a resolver pass on a language tag whose primary subtag is one
\* of the RTL codes, in any letter case, the root direction is rtl whatever
\* the body text.
C7_RtlLanguageWins == (PassDone /\ HasRtlPrimarySubtag(lang)) => dir = "rtl"

\* A pass on "Ku-TR" over a non-empty text without one RTL character.
C7_Witness ==
    /\ PassDone
    /\ lang = <<"K","u","-","T","R">>
    /\ Len(bodyText) > 0 /\ RtlCount(bodyText) = 0
    /\ dir = "rtl"

\* C8: after a resolver pass on a language tag whose primary subtag is no
\* RTL code, the direction is rtl when the RTL-range characters are strictly
\* more than a tenth of the text length, and ltr otherwise.
C8_TextThreshold ==
    (PassDone /\ ~HasRtlPrimarySubtag(lang))
    => dir = IF 10 * RtlCount(bodyText) > Len(bodyText) THEN "rtl" ELSE "ltr"

\* At exactly one RTL character in ten the pass chose ltr.
C8_Witness ==
    /\ PassDone
    /\ lang = <<"e","n">>
    /\ Len(bodyText) = 10 /\ RtlCount(bodyText) = 1
    /\ dir = "ltr"

\* C9: a pass with the lang attribute absent or empty leaves the direction a
\* pass with lang 'en' would, and over an empty body text with a non-RTL
\* language it leaves ltr.
C9_Defaults ==
    /\ (PassDone /\ lang \in {NoLang, <<>>})
       => dir = ResolveDirection(<<"e","n">>, bodyText)
    /\ (PassDone /\ ~HasRtlPrimarySubtag(lang) /\ bodyText = <<>>)
       => dir = "ltr"

\* A pass with no lang attribute over an empty body.
C9_Witness ==
    /\ PassDone
    /\ lang = NoLang
    /\ bodyText = <<>>
    /\ dir = "ltr"

\* A step that runs setPageDirection: the load handler or a due timer.
PassStep == DirectionLoad \/ \E id \in DOMAIN timers : TimerFire(id)

\* C10: a pass that reads the lang and body text the pass before it read
\* leaves the direction that pass left; and a pass sets no timer and changes
\* neither the lang attribute, the body text nor a card.
C10_Idempotent ==
    [][ PassStep
        => /\ sincePass \in {"clean", "repeated"} => dir' = dir
           /\ checkTimeout' = checkTimeout
           /\ nextTimerId' = nextTimerId
           /\ DOMAIN timers' \subseteq DOMAIN timers
           /\ UNCHANGED <<lang, bodyText, cardVars>> ]_vars

\* A second pass over an unchanged 'en' page whose text is all RTL.
C10_Witness ==
    /\ PassDone
    /\ sincePass = "repeated"
    /\ lang = <<"e","n">>
    /\ RtlCount(bodyText) = Len(bodyText) /\ Len(bodyText) > 0
    /\ dir = "rtl"

-----------------------------------------------------------------------------
(* Properties of the debounced re-evaluation, under SpecDirection *)

\* A due timer runs the resolver.
TimerPass == \E id \in DOMAIN timers : TimerFire(id)

\* C11: a pending timer is due DebounceMs after the observer's callback last
\* ran; the resolver runs from a timer only DebounceMs after the most recent
\* mutation batch (so never within a burst of batches less than DebounceMs
\* apart), only with a batch since the pass before, and leaves no timer
\* pending: one pass for the burst.
C11_DebounceCoalesces ==
    [][ /\ \A i \in DOMAIN timers : timers[i] = DebounceMs - sinceMutation
        /\ TimerPass => /\ sinceMutation = DebounceMs
                        /\ burst >= 1
                        /\ timers' = <<>> ]_vars

\* The one pass that followed a burst of two mutation batches.
C11_Witness ==
    /\ event.type = "timeout"
    /\ checkTimeout = 2
    /\ nextTimerId = 3
    /\ sinceMutation = DebounceMs
    /\ burst = 0
    /\ sincePass = "clean"
    /\ timers = <<>>

\* C18: at most one timer is pending, the one the observer set last; a timer
\* that was cancelled never runs the resolver.
C18_OnePendingTimer ==
    [][ /\ Cardinality(DOMAIN timers) <= 1
        /\ DOMAIN timers \subseteq {checkTimeout}
        /\ \A id \in DOMAIN timers : TimerFire(id) => id = checkTimeout ]_vars

\* A second mutation batch replaced the pending timer of the first.
C18_Witness ==
    /\ event.type = "mutation" /\ event.phase = "done"
    /\ burst = 2
    /\ checkTimeout = 2
    /\ DOMAIN timers = {2}
    /\ timers[2] = DebounceMs

\* C20: a step that changes the lang attribute queues no observer callback,
\* sets no timer and leaves the dir attribute alone; the dir attribute
\* changes only in a resolver pass.
C20_LangChangeUnobserved ==
    [][ /\ lang' # lang => /\ dir' = dir
                           /\ timers' = timers
                           /\ checkTimeout' = checkTimeout
                           /\ nextTimerId' = nextTimerId
                           /\ event'.phase = "done"
        /\ dir' # dir => event'.type \in {"load", "timeout"} ]_vars

\* After a pass on an 'en' page the lang attribute became 'ar': the
\* direction is still ltr and no timer is pending.
C20_Witness ==
    /\ observing
    /\ event.type = "setlang"
    /\ lang = <<"a","r">>
    /\ dir = "ltr"
    /\ sincePass = "changed"
    /\ timers = <<>>

\* C19: from any state with a timer pending, once the body mutations have
\* stopped the timer fires: a pass has run, the direction is the one the two
\* tiers give for the lang attribute and body text of that moment, and no
\* timer is pending; and from some point on no timer is pending any more,
\* a pass having set none.
C19_Converges ==
    /\ (DOMAIN timers # {})
          ~> ( /\ event.type = "timeout"
               /\ timers = <<>>
               /\ dir = IF HasRtlPrimarySubtag(lang)
                           \/ 10 * RtlCount(bodyText) > Len(bodyText)
                        THEN "rtl" ELSE "ltr" )
    /\ <>[](timers = <<>>)

\* The pass after the last mutation batch the model allows: the text became
\* all RTL and the direction followed.
C19_Witness ==
    /\ event.type = "timeout"
    /\ timers = <<>>
    /\ nextTimerId > 1
    /\ sincePass = "clean"
    /\ lang = <<"e","n">>
    /\ Len(bodyText) = 1 /\ RtlCount(bodyText) = 1
    /\ dir = "rtl"

\* A wheel event whose dispatch is over, on a page with a timeline.
WheelDone == hasTimeline /\ event.type = "wheel" /\ event.phase = "done"

\* C12: when the timeline's scrollWidth is not greater than clientWidth + 1
\* (scrollWidth = clientWidth + 1 included) a wheel event makes no scroll
\* request and its default is not suppressed; and for every wheel event the
\* default is suppressed exactly when a scroll request is made, of which
\* there is at most one.
C12_NoOverflowNoScroll ==
    WheelDone =>
        /\ scrollWidth - clientWidth <= 1 =>
              (scrollReqs = <<>> /\ ~event.defaultPrevented)
        /\ event.defaultPrevented <=> scrollReqs # <<>>
        /\ Len(scrollReqs) <= 1

\* A purely vertical wheel event on a timeline one pixel wider than its box
\* came and went with no request.
C12_Witness ==
    /\ WheelDone
    /\ scrollWidth = clientWidth + 1
    /\ wheel.deltaY = 100 /\ wheel.deltaX = 0
    /\ scrollReqs = <<>>
    /\ ~event.defaultPrevented

\* C13: on an overflowing timeline the wheel handler makes a request and
\* suppresses the default exactly when |deltaY| > |deltaX|; when
\* |deltaY| <= |deltaX| (both zero and equal magnitudes included) there is
\* no request and the event is left alone.
C13_DominantAxis ==
    (WheelDone /\ scrollWidth - clientWidth >= 2) =>
        IF wheel.deltaY * wheel.deltaY > wheel.deltaX * wheel.deltaX
        THEN Len(scrollReqs) = 1 /\ event.defaultPrevented
        ELSE scrollReqs = <<>> /\ ~event.defaultPrevented

\* A diagonal wheel event of equal magnitudes on an overflowing timeline was
\* left alone.
C13_Witness ==
    /\ WheelDone
    /\ scrollWidth = 2 * clientWidth
    /\ wheel.deltaY = 10 /\ wheel.deltaX = -10
    /\ scrollReqs = <<>>
    /\ ~event.defaultPrevented

\* The multiplier of a delta mode: 1 for pixels, 16 for lines, 800 for pages
\* and 1 for any other mode.
ModeMultiplier(mode) ==
    CASE mode = 1 -> 16
      [] mode = 2 -> 800
      [] OTHER -> 1

\* C14: a wheel scroll request is of deltaY * m * 1.2 (12 tenths per unit),
\* m the multiplier of the delta mode, the sign of deltaY kept, with
\* behaviour 'auto'; deltaY = 100 in pixels requests 120, deltaY = 10 in
\* lines requests 160 * 1.2 = 192.
C14_WheelAmount ==
    (WheelDone /\ scrollReqs # <<>>) =>
        /\ scrollReqs = <<[leftTenths |-> wheel.deltaY * ModeMultiplier(wheel.deltaMode) * 12,
                           behavior |-> "auto"]>>
        /\ (wheel.deltaY = 100 /\ wheel.deltaMode = 0) => scrollReqs[1].leftTenths = 1200
        /\ (wheel.deltaY = 10 /\ wheel.deltaMode = 1) => scrollReqs[1].leftTenths = 1920
        /\ (wheel.deltaY < 0) <=> (scrollReqs[1].leftTenths < 0)

\* A wheel event of ten pages upwards requested -9600 pixels.
C14_Witness ==
    /\ WheelDone
    /\ wheel.deltaY = -10 /\ wheel.deltaMode = 2
    /\ scrollReqs = <<[leftTenths |-> -96000, behavior |-> "auto"]>>

\* A keydown the timeline's listener has handled.
TimelineKeyDone ==
    /\ hasTimeline
    /\ event.type = "keydown" /\ event.phase = "done"
    /\ event.target.card = NoCard

\* C15: every keydown the timeline's listener handles with ArrowRight,
\* ArrowLeft, PageDown or PageUp suppresses the default and makes exactly one
\* smooth scroll request, of +260, -260, +0.8 * clientWidth and
\* -0.8 * clientWidth, whether or not the timeline overflows; any other key
\* makes no request and does not suppress the default.
C15_KeyScroll ==
    TimelineKeyDone =>
        LET expected ==
                CASE event.key = "ArrowRight" -> <<2600>>
                  [] event.key = "ArrowLeft" -> <<-2600>>
                  [] event.key = "PageDown" -> <<8 * clientWidth>>
                  [] event.key = "PageUp" -> <<0 - 8 * clientWidth>>
                  [] OTHER -> <<>>
        IN /\ Len(scrollReqs) = Len(expected)
           /\ \A i \in DOMAIN scrollReqs :
                 /\ scrollReqs[i].leftTenths = expected[i]
                 /\ scrollReqs[i].behavior = "smooth"
           /\ event.defaultPrevented <=> expected # <<>>

\* PageUp on a timeline that does not overflow requested 0.8 of its width
\* backwards.
C15_Witness ==
    /\ TimelineKeyDone
    /\ event.key = "PageUp"
    /\ scrollWidth = clientWidth /\ clientWidth = 333
    /\ scrollReqs = <<[leftTenths |-> -2664, behavior |-> "smooth"]>>
    /\ event.defaultPrevented

\* C16: on a page with no .timeline element the script registers no
\* listener: a wheel event, a keydown, a card click, Enter or Space on a card
\* and a document click are each over as soon as they are dispatched, with no
\* scroll request, no default suppressed, no card's open state changed and
\* no fault, on touch or narrow or wide devices alike.
C16_AbsentTimelineInert ==
    [][ ~hasTimeline =>
            /\ ~hasTimeline'
            /\ open' = open
            /\ scrollReqs' = <<>>
            /\ event'.phase = "done"
            /\ ~event'.defaultPrevented
            /\ ~fault' ]_vars

\* On a touch device without a timeline a click outside the cards left the
\* open card open.
C16_Witness ==
    /\ ~hasTimeline
    /\ touch
    /\ event.type = "click" /\ event.target.card = NoCard
    /\ event.before = {1}
    /\ open = {1}

\* C17: no handler ends in an uncaught exception, and once the resolver's
\* load handler has run, whatever elements the page has, the direction is
\* set and the observer is installed.
C17_NoFatalState ==
    /\ ~fault
    /\ event.type \in {"load", "error"} => (dir # NoAttr /\ observing)

====
